---- MODULE Spec2Model ----
(***************************************************************************)
(* Model of fit.py, the training driver of ship_detection: argument        *)
(* parsing, load_data, the fit function with its four Keras callbacks      *)
(* (ModelCheckpoint, EarlyStopping, ReduceLROnPlateau, CSVLogger), the     *)
(* data-loading worker of fit_generator, and the top-level retry loop.     *)
(*                                                                         *)
(* Units: losses are integers in units of 0.001, learning rates integers   *)
(* in units of 1e-8.  Losses range over finite values.                     *)
(***************************************************************************)
EXTENDS Integers, Sequences, FiniteSets, TLC

\* ---------------------------------------------------------------- bounds
MaxTrainEpochs == 2
MaxTrainSteps == 2
BatchSize == 2
LossLevels == 3

\* ------------------------------------------------------ program constants
Threshold == 200
Workers == 1
MaxQueueSizeTwo == Workers + 1
MaxQueueSize == 1
EarlyPatience == 15
ReducePatience == 1
ReduceDivisor == 5
ReduceMinDelta == 1
MinLr == 1
DefaultLr == 100000
DefaultModelName == "simple_unet"

LossVals == (Threshold - 1)..(Threshold + LossLevels - 2)
Inf == Threshold + LossLevels - 1
LearningRates == {DefaultLr, 25 * MinLr}
DatasetRows == {BatchSize, (MaxTrainSteps + 1) * BatchSize + 1}

\* ------------------------------------------------------- model registry
RegisteredNames == {DefaultModelName, "unet2"}
ModelNames == RegisteredNames \cup {"no_such_model"}

WEIGHT_PATH(n) == <<"weights", n>>
FIT_HISTORY_PATH(n) == <<"history", n>>

SegModel(n) == [MODEL_NAME |-> n, WEIGHT_PATH |-> WEIGHT_PATH(n),
                FIT_HISTORY_PATH |-> FIT_HISTORY_PATH(n)]
NoneModel == [MODEL_NAME |-> "None", WEIGHT_PATH |-> <<>>, FIT_HISTORY_PATH |-> <<>>]

AVAILABLE_MODELS == [n \in RegisteredNames |-> SegModel(n)]
AvailableModelsGetFirst(name) ==
    IF name \in DOMAIN AVAILABLE_MODELS THEN AVAILABLE_MODELS[DefaultModelName] ELSE NoneModel
AvailableModelsGet(name) ==
    IF name \in DOMAIN AVAILABLE_MODELS THEN AVAILABLE_MODELS[name] ELSE NoneModel

WeightPaths == {WEIGHT_PATH(n) : n \in RegisteredNames}
HistoryPaths == {FIT_HISTORY_PATH(n) : n \in RegisteredNames}

\* --------------------------------------------------------------- weights
\* A set of weights is named by where it came from: src is "scratch" (a
\* freshly built model), "absent" (no file), "pre_ok"/"pre_bad" (a file
\* that existed before the run, loadable or not), "cur" (trained in the
\* running fit call) or "old" (trained in an earlier fit call).
Weights(s, e, v) == [src |-> s, epoch |-> e, val |-> v]
Scratch == Weights("scratch", 0, 0)
Absent == Weights("absent", 0, 0)
PreExisting == {Absent, Weights("pre_ok", 0, 0), Weights("pre_bad", 0, 0)}

Row(g, e, v, l) == [gen |-> g, epoch |-> e, val_loss |-> v, lr |-> l]
PreRow == Row("pre", 0, 0, 0)

\* Entering a new fit call: what the previous call trained is now "old".
AgeWeights(w) == IF w.src = "cur" THEN [w EXCEPT !.src = "old"] ELSE w
AgeRow(r) == IF r.gen = "cur" THEN [r EXCEPT !.gen = "old"] ELSE r
AgeRows(rows) == [i \in 1..Len(rows) |-> AgeRow(rows[i])]

\* ---------------------------------------------------------------- numpy
\* np.min over the list of per-call val_loss lists (line 110)
NpMin(lh) ==
    LET S == UNION {{lh[i][j] : j \in 1..Len(lh[i])} : i \in 1..Len(lh)}
    IN CHOOSE m \in S : \A x \in S : m <= x

BelowThresholdOrEqual(lh) == NpMin(lh) <= Threshold
BelowThreshold(lh) == NpMin(lh) < Threshold

Min2(a, b) == IF a < b THEN a ELSE b
Max2(a, b) == IF a > b THEN a ELSE b

VARIABLES
    args, pc, error, printed,
    train_df, valid_x, valid_y, loss_history,
    weight_files, history_files,
    seg_model, keras_model, callbacks_list,
    epoch, step, stop_training, history,
    worker, queue, produced, consumed,
    load_data_calls, weight_reads, read_path, start_weights, retry

vars == <<args, pc, error, printed, train_df, valid_x, valid_y, loss_history,
          weight_files, history_files, seg_model, keras_model, callbacks_list,
          epoch, step, stop_training, history, worker, queue, produced, consumed,
          load_data_calls, weight_reads, read_path, start_weights, retry>>

driverVars == <<args, train_df, valid_x, valid_y, loss_history>>
fileVars == <<weight_files, history_files>>
trainVars == <<epoch, step, stop_training, history>>
loaderVars == <<worker, queue, produced, consumed>>
ghostVars == <<load_data_calls, weight_reads, read_path, start_weights, retry>>

NoData == [rows |-> 0, part |-> "none", classify |-> FALSE]
NoModel == [weights |-> Scratch, lr |-> 0, compiled |-> FALSE, classifier |-> FALSE,
            train_only_top |-> FALSE, built |-> FALSE]
NoCallbacks == [filepath |-> <<>>, cp_best |-> Inf, es_best |-> Inf, es_wait |-> 0,
                rl_best |-> Inf, rl_wait |-> 0, csv_path |-> <<>>, csv_open |-> FALSE]

\* argparse: lines 96-103
ParseArgs ==
    [model_name : ModelNames, learning_rate : LearningRates,
     train_only_top : BOOLEAN, classify_mode : BOOLEAN, load_weights : BOOLEAN]

Init ==
    /\ args \in ParseArgs
    /\ pc = "load_data"
    /\ error = "none"
    /\ printed = "none"
    /\ train_df = NoData /\ valid_x = NoData /\ valid_y = NoData
    /\ loss_history = <<>>
    /\ \E w \in PreExisting : weight_files = [p \in WeightPaths |-> w]
    /\ history_files = [p \in HistoryPaths |-> <<PreRow>>]
    /\ seg_model = NoneModel
    /\ keras_model = NoModel
    /\ callbacks_list = NoCallbacks
    /\ epoch = 0 /\ step = 0 /\ stop_training = FALSE /\ history = <<>>
    /\ worker = 0 /\ queue = <<>> /\ produced = 0 /\ consumed = 0
    /\ load_data_calls = 0 /\ weight_reads = 0 /\ read_path = <<>>
    /\ start_weights = Scratch /\ retry = FALSE

\* An exception nobody catches ends the script.
Raise(e) ==
    /\ pc' = "crashed"
    /\ error' = e

\* load_data: lines 51-62, called once at line 105
LoadData ==
    /\ pc = "load_data"
    /\ load_data_calls' = Min2(load_data_calls + 1, 2)
    /\ \/ /\ \E n \in DatasetRows :
               /\ train_df' = [rows |-> n, part |-> "train", classify |-> args.classify_mode]
               /\ valid_x' = [rows |-> n, part |-> "valid_x", classify |-> args.classify_mode]
               /\ valid_y' = [rows |-> n, part |-> "valid_y", classify |-> args.classify_mode]
          /\ pc' = "loop"
          /\ error' = error
       \/ /\ Raise("DataError")
          /\ UNCHANGED <<train_df, valid_x, valid_y>>
    /\ UNCHANGED <<args, printed, loss_history, fileVars, seg_model, keras_model,
                   callbacks_list, trainVars, loaderVars,
                   weight_reads, read_path, start_weights, retry>>

\* fit, lines 65-73: look the model up and build the network.  None has
\* no get_model attribute, so an unregistered name raises AttributeError.
FitBuild ==
    /\ pc = "loop"
    /\ weight_files' = [p \in WeightPaths |-> AgeWeights(weight_files[p])]
    /\ history_files' = [p \in HistoryPaths |-> AgeRows(history_files[p])]
    /\ seg_model' = AvailableModelsGet(args.model_name)
    /\ weight_reads' = 0
    /\ start_weights' = Scratch
    /\ IF seg_model' = NoneModel
       THEN /\ Raise("AttributeError")
            /\ UNCHANGED keras_model
       ELSE /\ keras_model' = [weights |-> Scratch, lr |-> 0, compiled |-> FALSE,
                               classifier |-> args.classify_mode,
                               train_only_top |-> args.train_only_top, built |-> TRUE]
            /\ pc' = "callbacks"
            /\ error' = error
    /\ UNCHANGED <<driverVars, printed, callbacks_list, trainVars, loaderVars,
                   load_data_calls, read_path, retry>>

\* get_callbacks, lines 21-40 (called at line 75): four new callback objects
GetCallbacksKeepBest(sm) ==
    [filepath |-> sm.WEIGHT_PATH, cp_best |-> callbacks_list.cp_best,
     es_best |-> Inf, es_wait |-> 0, rl_best |-> Inf, rl_wait |-> 0,
     csv_path |-> sm.FIT_HISTORY_PATH, csv_open |-> FALSE]
GetCallbacks(sm) ==
    [filepath |-> sm.WEIGHT_PATH, cp_best |-> Inf,
     es_best |-> Inf, es_wait |-> 0, rl_best |-> Inf, rl_wait |-> 0,
     csv_path |-> sm.FIT_HISTORY_PATH, csv_open |-> FALSE]

FitCallbacks ==
    /\ pc = "callbacks"
    /\ callbacks_list' = GetCallbacks(seg_model)
    /\ pc' = "load_weights"
    /\ UNCHANGED <<driverVars, error, printed, fileVars, seg_model, keras_model,
                   trainVars, loaderVars, ghostVars>>

\* keras_model.load_weights(path): a missing file raises OSError, a file
\* that does not fit the network raises ValueError.
LoadOutcome(f) ==
    CASE f.src = "absent" -> "OSError"
      [] f.src = "pre_bad" -> "ValueError"
      [] OTHER -> "ok"

\* the except clause of line 47
ExceptAny(e) == TRUE
ExceptOSError(e) == e = "OSError"

\* the condition of line 77
ShouldLoadAlways(a) == TRUE
ShouldLoad(a) == a.load_weights

\* lines 77-78 with load_weight_if_possible, lines 43-48
FitLoadWeights ==
    /\ pc = "load_weights"
    /\ IF ShouldLoad(args)
       THEN LET path == seg_model.WEIGHT_PATH
                f == weight_files[path]
                outcome == LoadOutcome(f)
            IN /\ weight_reads' = Min2(weight_reads + 1, 2)
               /\ read_path' = path
               /\ IF outcome = "ok"
                  THEN /\ keras_model' = [keras_model EXCEPT !.weights = f]
                       /\ printed' = "Weights loaded!"
                       /\ pc' = "compile"
                       /\ error' = error
                  ELSE IF ExceptOSError(outcome)
                  THEN /\ printed' = "No file with weights available! Starting from scratch..."
                       /\ pc' = "compile"
                       /\ error' = error
                       /\ UNCHANGED keras_model
                  ELSE /\ Raise(outcome)
                       /\ UNCHANGED <<keras_model, printed>>
       ELSE /\ pc' = "compile"
            /\ UNCHANGED <<error, printed, keras_model, weight_reads, read_path>>
    /\ UNCHANGED <<driverVars, fileVars, seg_model, callbacks_list, trainVars,
                   loaderVars, load_data_calls, start_weights, retry>>

\* Adam(args['learning_rate'], ...) of line 80
OptimizerLr(a) == a.learning_rate

\* compile, lines 80-81
FitCompile ==
    /\ pc = "compile"
    /\ keras_model' = [keras_model EXCEPT !.lr = OptimizerLr(args), !.compiled = TRUE]
    /\ start_weights' = keras_model.weights
    /\ pc' = "fit_generator"
    /\ UNCHANGED <<driverVars, error, printed, fileVars, seg_model, callbacks_list,
                   trainVars, loaderVars, load_data_calls, weight_reads, read_path, retry>>

\* step_count of line 83
StepCount(df) == Min2(MaxTrainSteps, df.rows \div BatchSize)

\* CSVLogger(..., append=False) opening its file at the start of training
CsvOpenAppend(rows) == rows
CsvOpen(rows) == <<>>

\* fit_generator, lines 85-91, up to the first batch: the callbacks'
\* on_train_begin run and the loader starts `workers` threads.
TrainBegin ==
    /\ pc = "fit_generator"
    /\ history_files' = [history_files EXCEPT
                           ![callbacks_list.csv_path] = CsvOpen(history_files[callbacks_list.csv_path])]
    /\ callbacks_list' = [callbacks_list EXCEPT !.csv_open = TRUE,
                            !.es_best = Inf, !.es_wait = 0, !.rl_best = Inf, !.rl_wait = 0]
    /\ epoch' = 0 /\ step' = 0 /\ stop_training' = FALSE /\ history' = <<>>
    /\ worker' = Workers /\ queue' = <<>> /\ produced' = 0 /\ consumed' = 0
    /\ pc' = "training"
    /\ UNCHANGED <<driverVars, error, printed, weight_files, seg_model, keras_model, ghostVars>>

\* the loader thread: next(aug_gen) goes into the queue while it has room
WorkerProduce ==
    /\ worker > 0
    /\ Len(queue) < MaxQueueSize
    /\ produced' = produced + 1
    /\ queue' = Append(queue, produced + 1)
    /\ UNCHANGED <<driverVars, pc, error, printed, fileVars, seg_model, keras_model,
                   callbacks_list, trainVars, worker, consumed, ghostVars>>

\* one training step takes the batch at the head of the queue
TrainStep ==
    /\ pc = "training"
    /\ step < StepCount(train_df)
    /\ queue # <<>>
    /\ consumed' = Head(queue)
    /\ queue' = Tail(queue)
    /\ step' = step + 1
    /\ UNCHANGED <<driverVars, pc, error, printed, fileVars, seg_model, keras_model,
                   callbacks_list, epoch, stop_training, history, worker, produced, ghostVars>>

\* ModelCheckpoint(save_best_only=True, mode='min'): lines 23-28
ShouldSaveAlways(current, best) == TRUE
ShouldSave(current, best) == current < best

\* ReduceLROnPlateau(factor=0.2, min_lr=1e-8): lines 30-37
ReducedLr(lr) == Max2(lr \div ReduceDivisor, MinLr)

\* End of an epoch: validation yields val_loss, then the callbacks run in
\* list order: checkpoint, early, reduceLROnPlat, csv_logger (line 40).
EpochEnd ==
    /\ pc = "training"
    /\ step = StepCount(train_df)
    /\ \E v \in LossVals :
        LET e == epoch + 1
            trained == Weights("cur", e, v)
            cb == callbacks_list
            save == ShouldSave(v, cb.cp_best)
            es_better == v < cb.es_best
            es_wait == IF es_better THEN 0 ELSE cb.es_wait + 1
            stop == es_wait >= EarlyPatience
            rl_better == v < cb.rl_best - ReduceMinDelta
            rl_wait == IF rl_better THEN 0 ELSE cb.rl_wait + 1
            reduce == rl_wait >= ReducePatience /\ keras_model.lr > MinLr
            lr == IF reduce THEN ReducedLr(keras_model.lr) ELSE keras_model.lr
        IN /\ weight_files' = IF save THEN [weight_files EXCEPT ![cb.filepath] = trained]
                              ELSE weight_files
           /\ history_files' = [history_files EXCEPT
                                  ![cb.csv_path] = Append(@, Row("cur", e, v, lr))]
           /\ callbacks_list' = [cb EXCEPT
                                   !.cp_best = IF save THEN v ELSE @,
                                   !.es_best = IF es_better THEN v ELSE @,
                                   !.es_wait = es_wait,
                                   !.rl_best = IF rl_better THEN v ELSE @,
                                   !.rl_wait = IF reduce THEN 0 ELSE rl_wait]
           /\ keras_model' = [keras_model EXCEPT !.weights = trained, !.lr = lr]
           /\ history' = Append(history, v)
           /\ epoch' = e
           /\ stop_training' = stop
           /\ pc' = IF e >= MaxTrainEpochs \/ stop THEN "train_end" ELSE "training"
    /\ step' = 0
    /\ UNCHANGED <<driverVars, error, printed, seg_model, loaderVars, ghostVars>>

\* fit_generator returns: the loader is stopped, the log closed, and fit
\* returns the list holding the one History (lines 85, 92, 108-109).
TrainEnd ==
    /\ pc = "train_end"
    /\ worker' = 0 /\ queue' = <<>>
    /\ callbacks_list' = [callbacks_list EXCEPT !.csv_open = FALSE]
    /\ loss_history' = <<history>>
    /\ pc' = "check"
    /\ UNCHANGED <<args, train_df, valid_x, valid_y, error, printed, fileVars, seg_model,
                   keras_model, trainVars, produced, consumed, ghostVars>>

\* a framework error during training: fit_generator stops the loader and
\* the exception leaves fit and the script
TrainFail ==
    /\ pc = "training"
    /\ Raise("FrameworkError")
    /\ worker' = 0 /\ queue' = <<>>
    /\ UNCHANGED <<driverVars, printed, fileVars, seg_model, keras_model, callbacks_list,
                   trainVars, produced, consumed, ghostVars>>

\* variants of the loop's last lines: load_data moved into the loop; an
\* unconditional break
CheckLossReload ==
    /\ pc = "check"
    /\ IF BelowThreshold(loss_history)
       THEN pc' = "done" /\ retry' = retry
       ELSE pc' = "load_data" /\ retry' = TRUE
    /\ UNCHANGED <<driverVars, error, printed, fileVars, seg_model, keras_model,
                   callbacks_list, trainVars, loaderVars,
                   load_data_calls, weight_reads, read_path, start_weights>>
CheckLossBreak ==
    /\ pc = "check"
    /\ pc' = "done"
    /\ UNCHANGED <<driverVars, error, printed, fileVars, seg_model, keras_model,
                   callbacks_list, trainVars, loaderVars, ghostVars>>

\* lines 110-111: leave the loop or go round again
CheckLoss ==
    /\ pc = "check"
    /\ IF BelowThreshold(loss_history)
       THEN pc' = "done" /\ retry' = retry
       ELSE pc' = "loop" /\ retry' = TRUE
    /\ UNCHANGED <<driverVars, error, printed, fileVars, seg_model, keras_model,
                   callbacks_list, trainVars, loaderVars,
                   load_data_calls, weight_reads, read_path, start_weights>>

Next ==
    \/ LoadData
    \/ FitBuild
    \/ FitCallbacks
    \/ FitLoadWeights
    \/ FitCompile
    \/ TrainBegin
    \/ WorkerProduce
    \/ TrainStep
    \/ EpochEnd
    \/ TrainEnd
    \/ TrainFail
    \/ CheckLoss

Spec == Init /\ [][Next]_vars

\* The driver started with the default learning rate and mode flags; the
\* interpreter always runs the next statement, and the loader thread is
\* scheduled while it lives.
DefaultFlagsInit ==
    /\ Init
    /\ args.learning_rate = DefaultLr
    /\ ~args.train_only_top
    /\ ~args.classify_mode
FairDefaultSpec == DefaultFlagsInit /\ [][Next]_vars /\ WF_vars(Next)

\* ------------------------------------------------------------- properties
OwnWeightPath == WEIGHT_PATH(args.model_name)
OwnHistoryPath == FIT_HISTORY_PATH(args.model_name)
Registered == args.model_name \in RegisteredNames
InFit == pc \in {"fit_generator", "training", "train_end", "check", "done"}
MetThreshold == \E j \in 1..Len(loss_history[1]) : loss_history[1][j] < Threshold
NoFile == "No file with weights available! Starting from scratch..."

\* C1: after a fit call the driver stops exactly when some epoch of that
\* call had val_loss strictly below 0.2 (so the call's minimum is), goes
\* round again otherwise, and once stopped never does anything again.
C1_StopsAtThreshold ==
    [][/\ pc = "check" => /\ pc' \in {"done", "loop"}
                          /\ (pc' = "done") <=> MetThreshold
       /\ pc' = "done" => pc \in {"check", "done"}
       /\ pc = "done" => pc' = "done"]_vars
C1_Witness == pc = "done" /\ retry /\ Len(loss_history[1]) = MaxTrainEpochs

\* C2: with load_weights set and no weights file, the OSError is caught and
\* logged and fit goes on to compile the freshly built model; a weights file
\* that does not load raises past fit, and every uncaught failure ends the
\* driver for good, never as an OSError of the weight loading.
C2_OnlyOSErrorCaught ==
    [][/\ (pc = "load_weights" /\ args.load_weights
              /\ weight_files[OwnWeightPath].src = "absent")
          => /\ pc' = "compile" /\ error' = "none"
             /\ printed' = NoFile
             /\ keras_model'.weights = Scratch
       /\ (pc = "load_weights" /\ args.load_weights
              /\ weight_files[OwnWeightPath].src = "pre_bad")
          => pc' = "crashed" /\ error' = "ValueError"
       /\ error' # "none" => pc' = "crashed"
       /\ pc' = "crashed" => error' \in {"DataError", "AttributeError", "ValueError", "FrameworkError"}
       /\ (pc' = "crashed" /\ pc # "crashed")
          => pc \in {"load_data", "loop", "load_weights", "training"}
       /\ pc = "crashed" => pc' = "crashed"]_vars
C2_Witness ==
    /\ printed = NoFile /\ pc = "training" /\ epoch = 1
    /\ start_weights = Scratch /\ error = "none"

\* C3: load_data runs once, before the loop; after it no step changes args,
\* train_df, valid_x or valid_y, and args never changes at all.
C3_ArgsAndDataFrozen ==
    [][/\ args' = args
       /\ pc # "load_data" => UNCHANGED <<train_df, valid_x, valid_y>>
       /\ load_data_calls' <= 1
       /\ pc' \notin {"load_data", "crashed"} => load_data_calls' = 1]_vars
C3_Witness == retry /\ pc = "compile" /\ load_data_calls = 1 /\ train_df.part = "train"

C5_OneWorkerQueueOfOne ==
    /\ worker <= 1
    /\ pc = "training" => worker = 1
    /\ Len(queue) <= 1
    /\ worker > 0 => pc \in {"training", "train_end"}
    /\ worker = 0 => queue = <<>>
    /\ worker > 0 => /\ produced = consumed + Len(queue)
                     /\ \A i \in 1..Len(queue) : queue[i] = consumed + i
                     /\ consumed = epoch * StepCount(train_df) + step
C5_Witness ==
    /\ retry /\ pc = "training" /\ epoch = 1 /\ step = 1
    /\ Len(queue) = 1 /\ queue[1] = consumed + 1 /\ consumed > 1

\* C6: once training has begun the model's CSV log holds rows of the running
\* fit call only, and when the driver exits it holds exactly one row per
\* epoch of the last fit call, in order, with that epoch's val_loss.
C6_LogOfLastFitOnly ==
    Registered =>
      LET rows == history_files[OwnHistoryPath] IN
      /\ pc \in {"training", "train_end", "check", "done"} =>
            \A i \in 1..Len(rows) : rows[i].gen = "cur" /\ rows[i].epoch = i
      /\ pc = "done" =>
            /\ Len(rows) = Len(loss_history[1])
            /\ \A i \in 1..Len(rows) : rows[i].val_loss = loss_history[1][i]
C6_Witness ==
    /\ pc = "done" /\ retry
    /\ Len(history_files[OwnHistoryPath]) = MaxTrainEpochs

\* C7: if no fit call fails, the driver terminates exactly when some fit
\* call ends with a minimum val_loss below 0.2, and otherwise keeps coming
\* back to start another fit call for ever.
C7_TerminatesIffThreshold ==
    [](pc # "crashed") =>
        /\ <>(pc = "check" /\ MetThreshold) => <>(pc = "done")
        /\ <>(pc = "done") => <>(pc = "check" /\ MetThreshold)
        /\ [](~(pc = "check" /\ MetThreshold)) => []<>(pc = "loop")
C7_Witness == pc = "loop" /\ retry /\ ~MetThreshold

C10_FileHoldsBestOfLastFit ==
    pc = "done" =>
      LET f == weight_files[OwnWeightPath]
          h == loss_history[1]
      IN /\ f.src = "cur"
         /\ f.epoch \in 1..Len(h)
         /\ h[f.epoch] = f.val
         /\ \A i \in 1..Len(h) : f.val <= h[i]
         /\ f.val < Threshold
C10_Witness ==
    /\ pc = "done" /\ retry /\ args.load_weights
    /\ weight_files[OwnWeightPath].epoch < Len(loss_history[1])
====
